---- MODULE Spec2Model ----
(***************************************************************************)
(* Model of the MQTT subscriber in src/src/sub/main.rs: the connection     *)
(* options (credentials, SSL/TLS block), the QoS normalization computed    *)
(* after Client::new, the subscription phase (subscribe_topics) and the    *)
(* event loop over eventloop.poll().                                       *)
(*                                                                         *)
(* The rumqttc client library is the environment.  Its observable          *)
(* interface is modelled as follows: Client::new opens no connection;      *)
(* Client::subscribe enqueues a request on a bounded channel and returns   *)
(* Ok or Err; poll() opens the connection when none is open (returning     *)
(* the ConnAck or an error) and otherwise returns the next event or an     *)
(* error, an error closing the connection.                                 *)
(***************************************************************************)
EXTENDS Integers, Sequences, FiniteSets, TLC

\* ---------------------------------------------------------------- bounds
MaxTopics == 3
MaxQos == 3
MaxPolls == 4
MaxPollsLong == 17
MaxPollsStartup == 2
MaxTopicsMany == 11
MaxPem == 2
MaxPayload == 1

\* capacity of the request channel given to Client::new
ReqCap == 10

\* i32 values the configuration's qos list is drawn from
QosVals == {-1, 0, 1, 2, 3}

ValidQos == {0, 1, 2}

\* ---------------------------------------------------------------- state
VARIABLES
    topics,      \* config.topics
    qos,         \* config.qos
    scheme,      \* config.scheme: "none" or the string
    username,    \* config.username: "none" or the string
    password,    \* config.password: "none" or the string
    ca,          \* config.ca_cert_path and the file behind it: "none" (no path),
                 \* "unreadable" (fs::read fails) or the sequence of PEM sections
    clientPem,   \* config.client_combined_path and the file behind it, likewise
    credentials, \* what set_credentials was given, "none" when not called
    transport,   \* "tcp" (the default) or the TLS configuration set on the options
    warned,      \* the missing-CA warning was printed
    clientCreated, \* Client::new was called
    pc,          \* position of main: "options", "normalize", "subscribe", "poll", "exited"
    actual_qos,  \* the Vec<QoS> computed after Client::new
    idx,         \* number of topics subscribe_topics has gone through
    requests,    \* requests enqueued on the client's channel, not yet sent
    subLog,      \* subscribe calls that returned Ok, in order
    connected,   \* the event loop holds an open connection
    polls,       \* number of poll() calls made
    conns,       \* number of connections opened successfully
    failed,      \* consecutive failed connection attempts
    lossClass,   \* how the Err arm classified the error that lost the connection:
                 \* "none" (no loss pending), "disconnected", "other"
    lastEvent,   \* what the last poll() returned
    surfaced,    \* number of incoming messages printed
    lastMsg,     \* the Publish the last poll() returned, NoMsg when it returned none
    printed,     \* what the Publish arm printed for it
    slept,       \* seconds the last turn of the loop slept
    cleanup,     \* unsubscribe / disconnect calls made by main
    exitCode,    \* -1 while running, else the process exit code
    fatal        \* which fatal error was reported: "none", "ca_unreadable",
                 \* "ca_add_error", "client_unreadable", "no_private_key",
                 \* "client_auth_error", "invalid_qos", "subscribe_error"

optVars == <<scheme, username, password, ca, clientPem, credentials, transport,
             warned, clientCreated>>

msgVars == <<lastMsg, printed>>

vars == <<topics, qos, pc, actual_qos, idx, requests, subLog, connected, polls,
          conns, failed, lossClass, lastEvent, surfaced, exitCode, fatal,
          optVars, msgVars, slept, cleanup>>

\* ---------------------------------------------------------------- helpers
Range(s) == {s[k] : k \in 1..Len(s)}

SeqsUpTo(S, n) == UNION {[1..k -> S] : k \in 0..n}

\* topics are distinct names; the k-th topic is named k
TopicList(t) == [k \in 1..t |-> k]

Replicate(v, n) == [k \in 1..n |-> v]

\* variant of MapQos: an unknown value falls back to the weakest level
MapQos_Default(q) ==
    CASE q = 1 -> "AtLeastOnce"
      [] q = 2 -> "ExactlyOnce"
      [] OTHER -> "AtMostOnce"

\* the match on a configured QoS integer; "Invalid" stands for the arm that
\* reports the value and calls process::exit(1)
MapQos(q) ==
    CASE q = 0 -> "AtMostOnce"
      [] q = 1 -> "AtLeastOnce"
      [] q = 2 -> "ExactlyOnce"
      [] OTHER -> "Invalid"

\* variant of Normalize: the last branch maps the first Len(ts) values only
Normalize_FirstT(ts, qs) ==
    IF Len(qs) < Len(ts) /\ qs # <<>>
    THEN Replicate(MapQos(qs[1]), Len(ts))
    ELSE IF qs = <<>> /\ ts # <<>>
         THEN Replicate("AtMostOnce", Len(ts))
         ELSE [k \in 1..Len(ts) |-> MapQos(qs[k])]

\* variant of Normalize: the first branch keeps the values given and pads
\* with the first one
Normalize_KeepGiven(ts, qs) ==
    IF Len(qs) < Len(ts) /\ qs # <<>>
    THEN [k \in 1..Len(ts) |-> MapQos(qs[IF k <= Len(qs) THEN k ELSE 1])]
    ELSE IF qs = <<>> /\ ts # <<>>
         THEN Replicate("AtMostOnce", Len(ts))
         ELSE [k \in 1..Len(qs) |-> MapQos(qs[k])]

\* variant of Normalize: an empty qos list defaults to QoS 1
Normalize_DefaultQos1(ts, qs) ==
    IF Len(qs) < Len(ts) /\ qs # <<>>
    THEN Replicate(MapQos(qs[1]), Len(ts))
    ELSE IF qs = <<>> /\ ts # <<>>
         THEN Replicate("AtLeastOnce", Len(ts))
         ELSE [k \in 1..Len(qs) |-> MapQos(qs[k])]

\* the value of the if / else if / else expression bound to actual_qos,
\* with "Invalid" entries where the match would have exited
Normalize(ts, qs) ==
    IF Len(qs) < Len(ts) /\ qs # <<>>
    THEN Replicate(MapQos(qs[1]), Len(ts))
    ELSE IF qs = <<>> /\ ts # <<>>
         THEN Replicate("AtMostOnce", Len(ts))
         ELSE [k \in 1..Len(qs) |-> MapQos(qs[k])]

\* variant of QosFor: every topic gets the first level
QosFor_First(qv, k) == IF qv # <<>> THEN qv[1] ELSE "AtMostOnce"

\* qos_values.get(i).copied().unwrap_or(QoS::AtMostOnce), i counted from 1
QosFor(qv, k) == IF k <= Len(qv) THEN qv[k] ELSE "AtMostOnce"

\* ---------------------------------------------------------------- options
Encrypted(sch) == sch \in {"ssl", "mqtts"}

\* variant of Credentials: set_credentials is called when either is present
Credentials_Either(user, pass) ==
    IF user # "none" \/ pass # "none"
    THEN [attached |-> TRUE,
          user |-> IF user # "none" THEN user ELSE "",
          pass |-> IF pass # "none" THEN pass ELSE ""]
    ELSE [attached |-> FALSE, user |-> "", pass |-> ""]

\* what set_credentials is given: called only with a username, the password
\* defaulting to the empty string
Credentials(user, pass) ==
    IF user # "none"
    THEN [attached |-> TRUE, user |-> user, pass |-> IF pass # "none" THEN pass ELSE ""]
    ELSE [attached |-> FALSE, user |-> "", pass |-> ""]

\* a PEM file: no path configured, a path fs::read fails on, or the sections read
NoFile == [st |-> "none", items |-> <<>>]
Unreadable == [st |-> "unreadable", items |-> <<>>]
PemItems == {"cert", "key", "malformed"}
PemFiles(n) ==
    {NoFile, Unreadable} \cup {[st |-> "read", items |-> x] : x \in SeqsUpTo(PemItems, n)}

IsCert(x) == x = "cert"

\* rustls_pemfile::certs(..).filter_map(Result::ok).collect(): the certificate
\* sections, sections that fail to parse being dropped
Certs(items) == SelectSeq(items, IsCert)

\* rustls_pemfile::pkcs8_private_keys(..).filter_map(Result::ok).next() is Some
HasKey(items) == "key" \in Range(items)

\* variant of TlsFatal: a missing CA path is fatal
TlsFatal_CaRequired(sch, caf, clf, addOk, authOk) ==
    IF ~Encrypted(sch) THEN "none"
    ELSE IF caf.st \in {"none", "unreadable"} THEN "ca_unreadable"
    ELSE IF Certs(caf.items) # <<>> /\ ~addOk THEN "ca_add_error"
    ELSE IF clf.st = "unreadable" THEN "client_unreadable"
    ELSE IF clf.st = "read" /\ ~HasKey(clf.items) THEN "no_private_key"
    ELSE IF clf.st = "read" /\ ~authOk THEN "client_auth_error"
    ELSE "none"

\* the fatal error of the SSL/TLS block, "none" when it goes through; addOk
\* and authOk are the library's verdicts in root_store.add and
\* with_client_auth_cert
TlsFatal(sch, caf, clf, addOk, authOk) ==
    IF ~Encrypted(sch) THEN "none"
    ELSE IF caf.st = "unreadable" THEN "ca_unreadable"
    ELSE IF Certs(caf.items) # <<>> /\ ~addOk THEN "ca_add_error"
    ELSE IF clf.st = "unreadable" THEN "client_unreadable"
    ELSE IF clf.st = "read" /\ ~HasKey(clf.items) THEN "no_private_key"
    ELSE IF clf.st = "read" /\ ~authOk THEN "client_auth_error"
    ELSE "none"

PlainTransport == [tls |-> FALSE, roots |-> 0, clientAuth |-> FALSE, chain |-> 0]

\* the transport set on the options when the block goes through
Transport(sch, caf, clf) ==
    IF ~Encrypted(sch) THEN PlainTransport
    ELSE [tls |-> TRUE,
          roots |-> Len(Certs(caf.items)),
          clientAuth |-> clf.st = "read",
          chain |-> Len(Certs(clf.items))]

\* ---------------------------------------------------------------- messages
\* payload bytes: 'h', and the two bytes of U+00E9, each invalid on its own
Bytes == {104, 195, 169}

Replacement == <<239, 191, 189>>

IsAscii(b) == b < 128
IsCont(b) == 128 <= b /\ b <= 191
IsLead2(b) == 194 <= b /\ b <= 223

\* String::from_utf8_lossy on bytes below 0xE0: valid one- and two-byte
\* sequences are kept, every other byte becomes U+FFFD
RECURSIVE FromUtf8Lossy(_)
FromUtf8Lossy(bs) ==
    IF bs = <<>> THEN <<>>
    ELSE IF IsAscii(bs[1]) THEN <<bs[1]>> \o FromUtf8Lossy(Tail(bs))
    ELSE IF IsLead2(bs[1]) /\ Len(bs) >= 2 /\ IsCont(bs[2])
         THEN <<bs[1], bs[2]>> \o FromUtf8Lossy(Tail(Tail(bs)))
    ELSE Replacement \o FromUtf8Lossy(Tail(bs))

NoMsg == [topic |-> 0, payload |-> <<>>, qos |-> "none"]

Messages ==
    [topic : {1}, payload : SeqsUpTo(Bytes, MaxPayload), qos : {"AtLeastOnce"}]

\* the three println! of the Publish arm
Surface(m) ==
    [topic |-> m.topic, payload |-> FromUtf8Lossy(m.payload), qos |-> m.qos]

\* ---------------------------------------------------------------- initial state
TypeOK ==
    /\ pc \in {"options", "normalize", "subscribe", "poll", "exited"}
    /\ exitCode \in {-1, 0, 1}
    /\ lossClass \in {"none", "disconnected", "other"}
    /\ connected \in BOOLEAN
    /\ idx \in 0..Len(topics)
    /\ Len(requests) <= ReqCap

InitWith(tmax, qset) ==
    /\ topics \in {TopicList(t) : t \in 0..tmax}
    /\ qos \in qset
    /\ pc = "options"
    /\ credentials = Credentials("none", "none")
    /\ transport = PlainTransport
    /\ warned = FALSE
    /\ clientCreated = FALSE
    /\ lastMsg = NoMsg
    /\ printed = NoMsg
    /\ slept = 0
    /\ cleanup = <<>>
    /\ actual_qos = <<>>
    /\ idx = 0
    /\ requests = <<>>
    /\ subLog = <<>>
    /\ connected = FALSE
    /\ polls = 0
    /\ conns = 0
    /\ failed = 0
    /\ lossClass = "none"
    /\ lastEvent = "none"
    /\ surfaced = 0
    /\ exitCode = -1
    /\ fatal = "none"

\* the options part of the configuration
AllOptions(n) ==
    [scheme : {"none", "tcp", "ssl", "mqtts"},
     username : {"none", "alice"},
     password : {"none", "secret"},
     ca : PemFiles(n),
     clientPem : PemFiles(n)]

OptionsIn(S) ==
    \E o \in S :
        /\ scheme = o.scheme
        /\ username = o.username
        /\ password = o.password
        /\ ca = o.ca
        /\ clientPem = o.clientPem

FewOptions ==
    {[scheme |-> "mqtts", username |-> "alice", password |-> "none",
      ca |-> [st |-> "read", items |-> <<"cert">>], clientPem |-> NoFile]}

Init == InitWith(MaxTopics, SeqsUpTo(QosVals, MaxQos)) /\ OptionsIn(FewOptions)

\* ---------------------------------------------------------------- startup
\* main up to Client::new: credentials, the SSL/TLS block, the client
BuildOptions ==
    /\ pc = "options"
    /\ credentials' = Credentials(username, password)
    /\ warned' = (Encrypted(scheme) /\ ca.st = "none")
    /\ \E addOk, authOk \in BOOLEAN :
         LET f == TlsFatal(scheme, ca, clientPem, addOk, authOk) IN
           IF f # "none"
           THEN /\ pc' = "exited"
                /\ exitCode' = 1
                /\ fatal' = f
                /\ UNCHANGED <<transport, clientCreated>>
           ELSE /\ pc' = "normalize"
                /\ transport' = Transport(scheme, ca, clientPem)
                /\ clientCreated' = TRUE
                /\ UNCHANGED <<exitCode, fatal>>
    /\ UNCHANGED <<topics, qos, scheme, username, password, ca, clientPem,
                   actual_qos, idx, requests, subLog, connected, polls, conns,
                   failed, lossClass, lastEvent, surfaced, msgVars, slept, cleanup>>

\* let actual_qos = ...: an invalid value in what the chosen branch maps
\* terminates the process with code 1
ComputeActualQos ==
    /\ pc = "normalize"
    /\ LET r == Normalize(topics, qos) IN
         IF "Invalid" \in Range(r)
         THEN /\ pc' = "exited"
              /\ exitCode' = 1
              /\ fatal' = "invalid_qos"
              /\ UNCHANGED actual_qos
         ELSE /\ pc' = "subscribe"
              /\ actual_qos' = r
              /\ UNCHANGED <<exitCode, fatal>>
    /\ UNCHANGED <<topics, qos, idx, requests, subLog, connected, polls, conns,
                   failed, lossClass, lastEvent, surfaced,
                   optVars, cleanup, msgVars, slept>>

\* variant of SubscribeTopic: a failed subscribe is reported and the loop
\* goes on with the next topic
SubscribeTopic_Continue ==
    /\ pc = "subscribe"
    /\ idx < Len(topics)
    /\ Len(requests) < ReqCap
    /\ LET q == QosFor(actual_qos, idx + 1)
           req == [topic |-> topics[idx + 1], qos |-> q]
       IN \/ /\ requests' = Append(requests, req)
             /\ subLog' = Append(subLog, req)
             /\ idx' = idx + 1
             /\ UNCHANGED <<pc, exitCode, fatal>>
          \/ /\ fatal' = "subscribe_error"
             /\ idx' = idx + 1
             /\ UNCHANGED <<pc, exitCode, requests, subLog>>
    /\ UNCHANGED <<topics, qos, actual_qos, connected, polls, conns, failed, lossClass,
                   lastEvent, surfaced,
                   optVars, cleanup, msgVars, slept>>

\* one turn of the for loop of subscribe_topics: cli.subscribe(topic, qos)
\* enqueues the request and returns Ok, or returns Err and the process exits
\* with code 1.  The call is a blocking send on the bounded channel: while
\* the channel is full it does not return, and the receiver, held by main,
\* reads the channel only in poll()
SubscribeTopic ==
    /\ pc = "subscribe"
    /\ idx < Len(topics)
    /\ Len(requests) < ReqCap
    /\ LET q == QosFor(actual_qos, idx + 1)
           req == [topic |-> topics[idx + 1], qos |-> q]
       IN \/ /\ requests' = Append(requests, req)
             /\ subLog' = Append(subLog, req)
             /\ idx' = idx + 1
             /\ UNCHANGED <<pc, exitCode, fatal>>
          \/ /\ pc' = "exited"
             /\ exitCode' = 1
             /\ fatal' = "subscribe_error"
             /\ UNCHANGED <<requests, subLog, idx>>
    /\ UNCHANGED <<topics, qos, actual_qos, connected, polls, conns, failed, lossClass,
                   lastEvent, surfaced,
                   optVars, cleanup, msgVars, slept>>

\* variant of EnterLoop: the loop is entered without waiting for
\* subscribe_topics to go through all topics
EnterLoop_Early ==
    /\ pc = "subscribe"
    /\ pc' = "poll"
    /\ UNCHANGED <<topics, qos, actual_qos, idx, requests, subLog, connected,
                   polls, conns, failed, lossClass, lastEvent, surfaced, exitCode, fatal,
                   optVars, cleanup, msgVars, slept>>

\* subscribe_topics returns; main prints the banner and enters the loop
EnterLoop ==
    /\ pc = "subscribe"
    /\ idx = Len(topics)
    /\ pc' = "poll"
    /\ UNCHANGED <<topics, qos, actual_qos, idx, requests, subLog, connected,
                   polls, conns, failed, lossClass, lastEvent, surfaced, exitCode, fatal,
                   optVars, cleanup, msgVars, slept>>

\* ---------------------------------------------------------------- event loop
Polling(maxPolls) == pc = "poll" /\ polls < maxPolls

\* poll() with no open connection: the connection attempt succeeds and the
\* ConnAck is returned; the Ok arm prints and the loop goes on
PollConnAck(maxPolls) ==
    /\ Polling(maxPolls)
    /\ ~connected
    /\ connected' = TRUE
    /\ conns' = conns + 1
    /\ failed' = 0
    /\ lossClass' = "none"
    /\ polls' = polls + 1
    /\ lastEvent' = "ConnAck"
    /\ lastMsg' = NoMsg /\ printed' = NoMsg /\ slept' = 0
    /\ UNCHANGED <<topics, qos, pc, actual_qos, idx, requests, subLog, surfaced,
                   exitCode, fatal,
                   optVars, cleanup>>

\* variant of PollErr: an error that is not a disconnection ends the process
PollErr_ExitOnOther(maxPolls) ==
    /\ pc = "poll" /\ polls < maxPolls
    /\ \E disc \in BOOLEAN :
         /\ lastEvent' = IF disc THEN "ErrDisconnected" ELSE "ErrOther"
         /\ lossClass' = IF ~connected THEN lossClass
                         ELSE IF disc THEN "disconnected" ELSE "other"
         /\ slept' = IF disc THEN 5 ELSE 0
         /\ pc' = IF disc THEN pc ELSE "exited"
         /\ exitCode' = IF disc THEN exitCode ELSE 1
    /\ lastMsg' = NoMsg /\ printed' = NoMsg
    /\ connected' = FALSE
    /\ failed' = IF connected THEN 0 ELSE failed + 1
    /\ polls' = polls + 1
    /\ UNCHANGED <<topics, qos, actual_qos, idx, requests, subLog, conns,
                   surfaced, fatal, optVars, cleanup>>

\* poll() returns Err: the Err arm prints, sleeps 5 s ("disconnected" in the
\* text) or 1 s, and the loop goes on.  The connection, if any, is gone.
PollErr(maxPolls) ==
    /\ Polling(maxPolls)
    /\ \E disc \in BOOLEAN :
         /\ lastEvent' = IF disc THEN "ErrDisconnected" ELSE "ErrOther"
         /\ lossClass' = IF ~connected THEN lossClass
                         ELSE IF disc THEN "disconnected" ELSE "other"
         /\ slept' = IF disc THEN 5 ELSE 1
    /\ lastMsg' = NoMsg /\ printed' = NoMsg
    /\ connected' = FALSE
    /\ failed' = IF connected THEN 0 ELSE failed + 1
    /\ polls' = polls + 1
    /\ UNCHANGED <<topics, qos, pc, actual_qos, idx, requests, subLog, conns,
                   surfaced, exitCode, fatal,
                   optVars, cleanup>>

\* Event::Incoming(Packet::Publish(p)): topic, payload and QoS are printed
PollPublish(maxPolls) ==
    /\ Polling(maxPolls)
    /\ connected
    /\ \E m \in Messages :
         /\ lastMsg' = m
         /\ printed' = Surface(m)
    /\ surfaced' = surfaced + 1
    /\ slept' = 0
    /\ polls' = polls + 1
    /\ lastEvent' = "Publish"
    /\ UNCHANGED <<topics, qos, pc, actual_qos, idx, requests, subLog, connected,
                   conns, failed, lossClass, exitCode, fatal,
                   optVars, cleanup>>

\* the event loop takes the next request off the channel, sends it and
\* returns Event::Outgoing(Subscribe): no arm matches, the loop goes on
PollOutgoingSubscribe(maxPolls) ==
    /\ Polling(maxPolls)
    /\ connected
    /\ requests # <<>>
    /\ requests' = Tail(requests)
    /\ polls' = polls + 1
    /\ lastEvent' = "OutgoingSubscribe"
    /\ lastMsg' = NoMsg /\ printed' = NoMsg /\ slept' = 0
    /\ UNCHANGED <<topics, qos, pc, actual_qos, idx, subLog, connected, conns,
                   failed, lossClass, surfaced, exitCode, fatal,
                   optVars, cleanup>>

\* variant of PollOther: an event no arm matches ends the loop
PollOther_Break(maxPolls) ==
    /\ pc = "poll" /\ polls < maxPolls
    /\ connected
    /\ polls' = polls + 1
    /\ lastEvent' = "Other"
    /\ lastMsg' = NoMsg /\ printed' = NoMsg /\ slept' = 0
    /\ pc' = "exited"
    /\ exitCode' = 0
    /\ UNCHANGED <<topics, qos, actual_qos, idx, requests, subLog, connected,
                   conns, failed, lossClass, surfaced, fatal, optVars, cleanup>>

\* any other event (SubAck, PingResp, ...): no arm matches, the loop goes on
PollOther(maxPolls) ==
    /\ Polling(maxPolls)
    /\ connected
    /\ polls' = polls + 1
    /\ lastEvent' = "Other"
    /\ lastMsg' = NoMsg /\ printed' = NoMsg /\ slept' = 0
    /\ UNCHANGED <<topics, qos, pc, actual_qos, idx, requests, subLog, connected,
                   conns, failed, lossClass, surfaced, exitCode, fatal,
                   optVars, cleanup>>

\* variant of PollOutgoingDisconnect: the arm prints and does not break
PollOutgoingDisconnect_NoBreak(maxPolls) ==
    /\ pc = "poll" /\ polls < maxPolls
    /\ connected
    /\ polls' = polls + 1
    /\ lastEvent' = "OutgoingDisconnect"
    /\ lastMsg' = NoMsg /\ printed' = NoMsg /\ slept' = 0
    /\ UNCHANGED <<topics, qos, pc, actual_qos, idx, requests, subLog, connected,
                   conns, failed, lossClass, surfaced, exitCode, fatal,
                   optVars, cleanup>>

\* Event::Outgoing(Outgoing::Disconnect): break, print, main returns
PollOutgoingDisconnect(maxPolls) ==
    /\ Polling(maxPolls)
    /\ connected
    /\ polls' = polls + 1
    /\ lastEvent' = "OutgoingDisconnect"
    /\ lastMsg' = NoMsg /\ printed' = NoMsg /\ slept' = 0
    /\ pc' = "exited"
    /\ exitCode' = 0
    /\ UNCHANGED <<topics, qos, actual_qos, idx, requests, subLog, connected,
                   conns, failed, lossClass, surfaced, fatal,
                   optVars, cleanup>>

\* ---------------------------------------------------------------- specifications
NextWith(maxPolls) ==
    \/ BuildOptions
    \/ ComputeActualQos
    \/ SubscribeTopic
    \/ EnterLoop
    \/ PollConnAck(maxPolls)
    \/ PollErr(maxPolls)
    \/ PollPublish(maxPolls)
    \/ PollOutgoingSubscribe(maxPolls)
    \/ PollOther(maxPolls)
    \/ PollOutgoingDisconnect(maxPolls)

Next == NextWith(MaxPolls)

Spec == Init /\ [][Next]_vars

\* few configurations, long runs of the event loop
InitLong == InitWith(1, {<<>>, <<1>>, <<3>>}) /\ OptionsIn(FewOptions)

NextLong == NextWith(MaxPollsLong)

SpecLong == InitLong /\ [][NextLong]_vars

\* all options, few topics, short runs of the event loop
InitStartup == InitWith(1, {<<>>}) /\ OptionsIn(AllOptions(MaxPem))

NextStartup == NextWith(MaxPollsStartup)

SpecStartup == InitStartup /\ [][NextStartup]_vars

\* more topics than the request channel holds
InitMany == InitWith(MaxTopicsMany, {<<>>}) /\ OptionsIn(FewOptions)

SpecMany == InitMany /\ [][NextStartup]_vars

\* ---------------------------------------------------------------- claims
T == Len(topics)
Q == Len(qos)

AllValid == \A k \in 1..Q : qos[k] \in ValidQos

\* main went through the let actual_qos = ... statement
PastNormalize ==
    \/ pc \in {"subscribe", "poll"}
    \/ pc = "exited" /\ clientCreated

\* the level the normalization policy gives topic k
LevelOf(k) == QosFor(Normalize(topics, qos), k)

\* the subscribe calls made so far are those of the first topics, in order
SubscribedAsMapped(levels) ==
    \A k \in 1..Len(subLog) : subLog[k] = [topic |-> topics[k], qos |-> levels[k]]

\* the levels the claims name: mapped position by position, the first one
\* for every topic, the normalized ones
PerPosition == [k \in 1..Q |-> MapQos(qos[k])]
FirstForAll == [k \in 1..T |-> MapQos(qos[1])]
Normalized == [k \in 1..T |-> LevelOf(k)]

C2_Original ==
    (Q >= T /\ \A k \in 1..T : qos[k] \in ValidQos) =>
        /\ PastNormalize => fatal # "invalid_qos"
        /\ SubscribedAsMapped(PerPosition)
        /\ pc = "poll" => Len(subLog) = T

\* C2 (amended): when Q >= T and all Q values are in {0,1,2}, the process is
\* not stopped by the normalization, topic k is subscribed with the level
\* mapped from qos[k] and all T topics are subscribed when the loop is
\* entered; when Q >= T and some value, at any position, is outside {0,1,2},
\* the process exits with code 1 before any subscribe request.
C2_Amended ==
    /\ (Q >= T /\ AllValid) =>
          /\ PastNormalize => fatal # "invalid_qos"
          /\ SubscribedAsMapped(PerPosition)
          /\ pc = "poll" => Len(subLog) = T
    /\ (Q >= T /\ ~AllValid /\ PastNormalize) =>
          /\ pc = "exited" /\ exitCode = 1 /\ fatal = "invalid_qos"
          /\ subLog = <<>>

C2_Witness ==
    /\ Q > T /\ T >= 2 /\ AllValid
    /\ qos[1] # qos[2]
    /\ pc = "poll" /\ Len(subLog) = T

\* C3: when 0 < Q < T the normalization stops the process exactly when
\* qos[0] is outside {0,1,2}; otherwise every topic is subscribed with the
\* level mapped from qos[0] and all T are subscribed when the loop is
\* entered, whatever qos[1..Q-1] are.
C3_FirstOnly ==
    (0 < Q /\ Q < T /\ PastNormalize) =>
        /\ fatal = "invalid_qos" <=> qos[1] \notin ValidQos
        /\ SubscribedAsMapped(FirstForAll)
        /\ pc = "poll" => Len(subLog) = T

C3_Witness ==
    /\ 1 < Q /\ Q < T
    /\ qos[2] \notin ValidQos
    /\ pc = "poll" /\ Len(subLog) = T
    /\ subLog[2].qos = MapQos(qos[1])

\* C4: a value outside {0,1,2} in the validated slice (qos[0] when
\* 0 < Q < T, the first T values when Q >= T) ends the process with exit
\* code 1 and the invalid-QoS report, with no level computed and no
\* subscribe request issued.
InvalidInSlice ==
    \/ 0 < Q /\ Q < T /\ qos[1] \notin ValidQos
    \/ Q >= T /\ \E k \in 1..T : qos[k] \notin ValidQos

C4_Fatal ==
    (InvalidInSlice /\ PastNormalize) =>
        /\ pc = "exited" /\ exitCode = 1 /\ fatal = "invalid_qos"
        /\ actual_qos = <<>>
        /\ subLog = <<>> /\ requests = <<>> /\ idx = 0

C4_Witness ==
    /\ Q >= T /\ T >= 2
    /\ qos[1] \in ValidQos /\ qos[2] \notin ValidQos
    /\ pc = "exited" /\ exitCode = 1

\* C5: once the event loop has polled, opened a connection or printed a
\* message, a subscribe request has been issued for every configured topic,
\* in order, each with its normalized level.
C5_SubscribedFirst ==
    (polls > 0 \/ conns > 0 \/ surfaced > 0 \/ lastEvent # "none") =>
        /\ Len(subLog) = T
        /\ SubscribedAsMapped(Normalized)

C5_Witness ==
    /\ T >= 2 /\ conns > 0 /\ surfaced > 0
    /\ Len(subLog) = T

\* C6 (as stated): after a connection was lost with a poll error classified
\* as disconnected, at most 12 reconnection attempts are made: 12 failed
\* attempts in a row end the process, so a 13th never fails.
C6_Claim ==
    lossClass = "disconnected" =>
        /\ failed <= 12
        /\ failed = 12 => pc = "exited"

\* C7 (as stated): when the loop is about to poll after a reconnection, the
\* subscribe requests have been issued again for all topics, once per
\* connection.
C7_Claim ==
    (pc = "poll" /\ conns >= 2) => Len(subLog) >= conns * T

\* C8 (as stated): when the first connection attempt has failed the process
\* has exited with code 1, and no second attempt is made before a first
\* connection has succeeded.
C8_Claim ==
    conns = 0 =>
        /\ failed <= 1
        /\ failed = 1 => (pc = "exited" /\ exitCode = 1)

\* C9: when a subscribe call fails the process has exited with code 1, the
\* topics subscribed are the ones before the failing one only, and the event
\* loop was never entered.
C9_SubscribeFatal ==
    fatal = "subscribe_error" =>
        /\ pc = "exited" /\ exitCode = 1
        /\ Len(subLog) = idx /\ idx < T
        /\ SubscribedAsMapped(Normalized)
        /\ polls = 0 /\ lastEvent = "none" /\ conns = 0

C9_Witness ==
    /\ fatal = "subscribe_error"
    /\ idx >= 1 /\ idx + 1 < T
    /\ pc = "exited"

\* C10: when poll() has returned the outgoing-disconnect event the process
\* has exited with code 0, and no poll is made after it.
C10_CleanExit ==
    /\ [](lastEvent = "OutgoingDisconnect" => (pc = "exited" /\ exitCode = 0))
    /\ [][lastEvent = "OutgoingDisconnect" => polls' = polls]_vars

C10_Witness ==
    /\ lastEvent = "OutgoingDisconnect"
    /\ pc = "exited" /\ exitCode = 0
    /\ polls >= 2

\* C11 (as stated): when the loop has been left with the connection open,
\* main has issued an unsubscribe and a disconnect; with the connection
\* closed it has issued neither.
C11_Claim ==
    (pc = "exited" /\ lastEvent = "OutgoingDisconnect") =>
        cleanup = IF connected THEN <<"unsubscribe", "disconnect">> ELSE <<>>

\* C12 (as stated): what is printed for an incoming message is its topic,
\* its payload bytes and its QoS, unmodified, for any byte content.
C12_Claim ==
    lastEvent = "Publish" => printed = lastMsg

\* C13: under "ssl" or "mqtts", once main is past the options: with no CA
\* path the warning was printed and no CA error is fatal, and with no client
\* file either the client was created; with an unreadable CA file, an
\* unreadable client file or a client file without a private key the
\* process has exited with code 1, no client created, no connection
\* attempted and no subscribe request issued.
TlsFatals ==
    {"ca_unreadable", "ca_add_error", "client_unreadable", "no_private_key",
     "client_auth_error"}

C13_TlsStartup ==
    (Encrypted(scheme) /\ pc # "options") =>
        /\ ca.st = "none" =>
              /\ warned
              /\ fatal \notin {"ca_unreadable", "ca_add_error"}
              /\ clientPem.st = "none" => (clientCreated /\ fatal \notin TlsFatals)
        /\ ca.st # "none" => ~warned
        /\ (\/ ca.st = "unreadable"
            \/ clientPem.st = "unreadable"
            \/ clientPem.st = "read" /\ ~HasKey(clientPem.items)) =>
              /\ pc = "exited" /\ exitCode = 1 /\ fatal \in TlsFatals
              /\ ~clientCreated
              /\ polls = 0 /\ conns = 0 /\ subLog = <<>> /\ requests = <<>>

C13_Witness ==
    /\ scheme = "ssl" /\ ca.st = "none" /\ clientPem.st = "none"
    /\ warned /\ clientCreated /\ transport.tls
    /\ conns = 1 /\ Len(subLog) = 1

\* C14 (as stated): under "ssl" or "mqtts", a malformed section in the CA
\* file or in the client file ends the process with code 1 before the
\* client is created.
C14_Claim ==
    (/\ Encrypted(scheme) /\ pc # "options"
     /\ "malformed" \in Range(ca.items) \cup Range(clientPem.items)) =>
        /\ pc = "exited" /\ exitCode = 1 /\ fatal \in TlsFatals
        /\ ~clientCreated

\* C15 (as stated): no failed attempt is counted while connected, and a
\* later connection loss again gets a budget of 12 attempts: 12 failed
\* attempts in a row end the process.
C15_Claim ==
    /\ connected => failed = 0
    /\ (conns >= 2 /\ ~connected) =>
          /\ failed <= 12
          /\ failed = 12 => pc = "exited"

\* C16: a poll error that is not classified as disconnected leaves the
\* process in the loop, about to poll again after a pause of 1 s, with the
\* subscribe requests issued and queued unchanged and no cleanup call made.
C16_OtherErr ==
    [][(polls' # polls /\ lastEvent' = "ErrOther") =>
          /\ pc' = "poll" /\ exitCode' = -1 /\ fatal' = fatal
          /\ slept' = 1
          /\ UNCHANGED <<subLog, requests, actual_qos, idx, cleanup>>]_vars

C16_Witness ==
    /\ lastEvent = "ErrOther" /\ slept = 1
    /\ failed >= 2 /\ conns >= 1
    /\ pc = "poll" /\ subLog # <<>>

\* C17: when Q = 0 and T > 0 the normalization does not stop the process and
\* every topic is subscribed at-most-once, all T of them when the loop is
\* entered.
C17_EmptyQos ==
    (Q = 0 /\ T > 0 /\ PastNormalize) =>
        /\ fatal # "invalid_qos"
        /\ actual_qos = Replicate("AtMostOnce", T)
        /\ SubscribedAsMapped(Replicate("AtMostOnce", T))
        /\ pc = "poll" => Len(subLog) = T

C17_Witness ==
    /\ Q = 0 /\ T >= 2
    /\ pc = "poll" /\ Len(subLog) = T
    /\ subLog[2].qos = "AtMostOnce"

\* C18: no credentials are attached before the options are built; after,
\* credentials are attached exactly when a username is configured, with
\* that username and the configured password or the empty string; the
\* client is created only after that.
C18_Credentials ==
    /\ pc = "options" => (~credentials.attached /\ ~clientCreated)
    /\ pc # "options" =>
          /\ credentials.attached <=> username # "none"
          /\ username # "none" =>
                /\ credentials.user = username
                /\ credentials.pass = IF password = "none" THEN "" ELSE password

C18_Witness ==
    /\ username = "none" /\ password = "secret"
    /\ clientCreated /\ ~credentials.attached
    /\ conns = 1

\* C19: the event loop is left only by the step that handles the
\* outgoing-disconnect event, and main makes no unsubscribe or disconnect
\* call.
C19_ExitPaths ==
    /\ [][(pc = "poll" /\ pc' # "poll") => lastEvent' = "OutgoingDisconnect"]_vars
    /\ [](cleanup = <<>>)

C19_Witness ==
    /\ pc = "exited" /\ lastEvent = "OutgoingDisconnect"
    /\ surfaced >= 1 /\ conns >= 1 /\ polls >= 4
    /\ cleanup = <<>>

\* C20 (as stated): while subscribe_topics has topics left, the subscribe
\* call it makes returns: the request channel has room for the request.
C20_Claim ==
    (pc = "subscribe" /\ idx < T) => Len(requests) < ReqCap

====
